---- MODULE Spec2Model ----
(***************************************************************************)
(* Model of obsidian-tools: the resource optimizer (obsidian_tools) and    *)
(* the year-sort workflow (obsidian_sorter / sort_md_by_year.py).          *)
(*                                                                         *)
(* A path is a record [dir, name]: dir is the sequence of directory names  *)
(* below the base path, name a record [stem, ext] (pathlib's stem and      *)
(* suffix).  A note's text is the sequence of its wiki links; a link       *)
(* records its embed marker, the folder written before the file name, the  *)
(* file name, the display text and whether it starts a new line (the       *)
(* regular expressions of the code never match across a line break).       *)
(***************************************************************************)
EXTENDS Integers, Sequences, FiniteSets, TLC

VARIABLES
    tool,        \* which entry point runs: "optimizer", "sorter", or one function alone
    execute,     \* self.execute
    pc,          \* position of the run
    fs,          \* the filesystem: [notes, resources, dirs]
    fs0,         \* the filesystem when the first run started
    walk,        \* the order in which rglob visits the resource directories
    references,  \* optimize_resources: references
    conflicts,   \* optimize_resources: conflicts
    moves,       \* optimize_resources: moves
    skips,       \* optimize_resources: the SKIP decisions, in order
    stats,       \* optimize_resources: stats
    mv,          \* Phase 4: index of the next queued move
    attempts,    \* Phase 4: how often each queued move was attempted
    outcome,     \* Phase 4: what happened to each queued move
    writes,      \* per note: the resource names write_text was applied for
    upd_errors,  \* notes whose link update failed (printed ERROR lines)
    dry,         \* the finished earlier run: what it decided and counted
    srt,         \* sort_files / _process_file: the locals of the year-sort
    log,         \* year-sort: the outcome printed for each note and reference
    call         \* a call of a pure function: its arguments and its result

vars == <<tool, execute, pc, fs, fs0, walk, references, conflicts, moves,
          skips, stats, mv, attempts, outcome, writes, upd_errors, dry, srt, log,
          call>>

optVars == <<references, conflicts, moves, skips, mv, attempts, outcome>>
sortVars == <<srt, log, call>>

(***************************************************************************)
(* Bounds of the model.                                                    *)
(***************************************************************************)
MaxLinks == 2     \* links in the notes of an initial tree, all notes together
MaxCopies == 2    \* files of one resource name in an initial tree
MaxPaths == 3     \* notes in a list handed to find_lowest_common_ancestor

(***************************************************************************)
(* Paths and names.                                                        *)
(***************************************************************************)
N(stem, ext) == [stem |-> stem, ext |-> ext]
P(dir, name) == [dir |-> dir, name |-> name]

base_path == <<>>
RES == "_resources"

NoPath == P(<<"?">>, N("", ""))      \* resource_actual_path = None
NoneHash == "None"                   \* resource_hash = None
CONFLICT == "CONFLICT"

DirA == <<"A">>
DirAB == <<"A", "B">>
DirAC == <<"A", "C">>

Note1 == N("n1", "md")
Note2 == N("n2", "md")
ResX == N("x", "png")
ResY == N("y", "png")
ResNames == {ResX, ResY}
Contents == {"c1", "c2"}

Places == <<DirA \o <<RES>>, DirAB \o <<RES>>, DirAC \o <<RES>>>>
Reverse(s) == [i \in 1..Len(s) |-> s[Len(s) + 1 - i]]
Range(s) == {s[i] : i \in 1..Len(s)}

IsPrefix(d, e) == Len(d) <= Len(e) /\ SubSeq(e, 1, Len(d)) = d
\* pathlib: path.parents, for a file path
Parents(p) == {SubSeq(p.dir, 1, k) : k \in 0..Len(p.dir)}
\* every directory that mkdir(parents=True) makes sure exists
WithParents(d) == {SubSeq(d, 1, k) : k \in 0..Len(d)}

\* variant: no path is ever found to exist
Exists_never(p) == FALSE

\* Path.exists()
Exists(p) == p \in DOMAIN fs.notes \/ p \in DOMAIN fs.resources

(***************************************************************************)
(* Links and note text.                                                    *)
(***************************************************************************)
Link(embed, folder, name, disp, bol) ==
    [embed |-> embed, folder |-> folder, name |-> name, disp |-> disp, bol |-> bol]

\* MarkdownParser.extract_resource_links: r'!?\[\[(_resources/[^\]|]+)'
\* followed by Path(link).name in the callers
extract_resource_links(text) ==
    LET hit(l) == Len(l.folder) >= 1 /\ l.folder[1] = RES
        idx == {i \in 1..Len(text) : hit(text[i])}
        RECURSIVE take(_)
        take(i) == IF i > Len(text) THEN <<>>
                   ELSE IF i \in idx THEN <<text[i].name>> \o take(i + 1)
                   ELSE take(i + 1)
    IN take(1)

(***************************************************************************)
(* Resource Locator and Content Identity.                                  *)
(***************************************************************************)
\* ResourceLocator.find_resource
find_resource(name) ==
    LET here(d) == P(d, name) \in DOMAIN fs.resources
        RECURSIVE collect(_)
        collect(i) == IF i > Len(walk) THEN <<>>
                      ELSE IF here(walk[i]) THEN <<P(walk[i], name)>> \o collect(i + 1)
                      ELSE collect(i + 1)
    IN collect(1)

Digest(c) == "sha256:" \o c

\* FileHasher.compute_hash
compute_hash(p) ==
    IF p \in DOMAIN fs.resources /\ fs.resources[p].readable
    THEN Digest(fs.resources[p].content)
    ELSE NoneHash

\* variant: the two hashes are compared without the test for None
files_are_identical_unchecked(a, b) == compute_hash(a) = compute_hash(b)

\* FileHasher.files_are_identical
files_are_identical(a, b) ==
    LET hash1 == compute_hash(a)
        hash2 == compute_hash(b)
    IN IF hash1 = NoneHash \/ hash2 = NoneHash THEN FALSE ELSE hash1 = hash2

(***************************************************************************)
(* Resource analyzer.                                                      *)
(***************************************************************************)
Ref(md, name, path, hash) ==
    [md_file_path |-> md, resource_name |-> name,
     resource_actual_path |-> path, resource_hash |-> hash]

\* build_reference_array, lines 82-84: the candidates count as one resource
all_identical(hashes) == Cardinality(Range(hashes) \ {NoneHash}) = 1

\* variant: the candidates are not compared, and a reference of the second
\* note resolves to the candidate found last
reference_for_by_note(md, name) ==
    LET found_paths == find_resource(name)
        k == IF md.name = Note2 THEN Len(found_paths) ELSE 1
    IN IF found_paths = <<>> THEN Ref(md, name, NoPath, NoneHash)
       ELSE Ref(md, name, found_paths[k], compute_hash(found_paths[k]))

\* build_reference_array, the body of the inner loop
reference_for(md, name) ==
    LET found_paths == find_resource(name) IN
    IF found_paths = <<>> THEN Ref(md, name, NoPath, NoneHash)
    ELSE IF Len(found_paths) = 1
    THEN Ref(md, name, found_paths[1], compute_hash(found_paths[1]))
    ELSE LET hashes == [i \in 1..Len(found_paths) |-> compute_hash(found_paths[i])]
         IN IF all_identical(hashes)
            THEN Ref(md, name, found_paths[1], hashes[1])
            ELSE Ref(md, name, found_paths[1], CONFLICT)

\* rglob('*.md'): the notes that exist, in the order the walk meets them
NoteDirs == <<DirA, DirAB, DirAC>>
NoteNames == <<Note1, Note2>>
NoteWalk ==
    [i \in 1..(Len(NoteNames) * Len(NoteDirs)) |->
        P(NoteDirs[((i - 1) % Len(NoteDirs)) + 1], NoteNames[((i - 1) \div Len(NoteDirs)) + 1])]
md_files_of(f) == SelectSeq(NoteWalk, LAMBDA p : p \in DOMAIN f.notes)

\* ResourceAnalyzer.build_reference_array
build_reference_array ==
    LET md_files == md_files_of(fs)
        refs_of(md) ==
            LET links == extract_resource_links(fs.notes[md].text)
            IN [i \in 1..Len(links) |-> reference_for(md, links[i])]
        RECURSIVE scan(_)
        scan(k) == IF k > Len(md_files) THEN <<>>
                   ELSE refs_of(md_files[k]) \o scan(k + 1)
    IN scan(1)

\* ResourceAnalyzer.detect_conflicts
detect_conflicts(refs) ==
    LET counted(r) == r.resource_hash # NoneHash /\ r.resource_hash # CONFLICT
        by_name(n) == SelectSeq(refs, LAMBDA r : counted(r) /\ r.resource_name = n)
        names == {refs[i].resource_name : i \in {j \in 1..Len(refs) : counted(refs[j])}}
        unique_hashes(n) == {by_name(n)[i].resource_hash : i \in 1..Len(by_name(n))}
    IN [n \in {m \in names : Cardinality(unique_hashes(m)) > 1} |-> by_name(n)]

\* variant: every reference forms a group of its own
group_by_resource_unmerged(refs) ==
    LET kept == SelectSeq(refs, LAMBDA r : r.resource_actual_path # NoPath
                                           /\ r.resource_hash # CONFLICT)
    IN [i \in 1..Len(kept) |-> [path |-> kept[i].resource_actual_path,
                                md_files |-> <<kept[i].md_file_path>>]]

\* ResourceAnalyzer.group_by_resource: the dict as the sequence of its items
group_by_resource(refs) ==
    LET RECURSIVE add(_, _)
        add(i, grouped) ==
            IF i > Len(refs) THEN grouped
            ELSE LET ref == refs[i] IN
                 IF ref.resource_actual_path = NoPath \/ ref.resource_hash = CONFLICT
                 THEN add(i + 1, grouped)
                 ELSE IF \E k \in 1..Len(grouped) : grouped[k].path = ref.resource_actual_path
                 THEN add(i + 1,
                          [k \in 1..Len(grouped) |->
                              IF grouped[k].path = ref.resource_actual_path
                              THEN [grouped[k] EXCEPT !.md_files = Append(@, ref.md_file_path)]
                              ELSE grouped[k]])
                 ELSE add(i + 1, Append(grouped, [path |-> ref.resource_actual_path,
                                                  md_files |-> <<ref.md_file_path>>]))
    IN add(1, <<>>)

\* variant: the parent of the first note
lca_first_parent(paths) == IF paths = <<>> THEN base_path ELSE paths[1].dir

\* ResourceAnalyzer.find_lowest_common_ancestor
find_lowest_common_ancestor(paths) ==
    IF paths = <<>> THEN base_path
    ELSE IF Len(paths) = 1 THEN paths[1].dir
    ELSE LET common_ancestors == {d \in Parents(paths[1]) :
                                     \A i \in 2..Len(paths) : d \in Parents(paths[i])}
         IN IF common_ancestors = {} THEN base_path
            ELSE CHOOSE d \in common_ancestors :
                     \A e \in common_ancestors : Len(e) <= Len(d)

NoCall == [fn |-> "", args |-> <<>>, result |-> <<>>, returned |-> FALSE]
NoYear == ""
NoName == N("", "")
\* the locals of a year-sort run: md_files (the glob of sort_files), the index
\* of the note in work, its resource_links and the index of the link in work,
\* md_file_for_update, year_dir and whether resources_path is set
NoSort == [md_files |-> <<>>, i |-> 1, resource_links |-> <<>>, j |-> 1,
           md_file_for_update |-> NoPath, year_dir |-> <<>>, resources_path |-> FALSE]

(***************************************************************************)
(* Resource optimizer.                                                     *)
(***************************************************************************)
ZeroStats == [moved |-> 0, skipped_conflict |-> 0, skipped_optimal |-> 0, errors |-> 0]

\* optimize_resources, lines 59-64: the paths of the Phase-2 conflicts
conflict_paths_of(cs) ==
    UNION {{cs[n][i].resource_actual_path : i \in 1..Len(cs[n])} : n \in DOMAIN cs}
        \ {NoPath}

\* optimize_resources, line 82
optimal_location(resource_path, md_files) ==
    P(find_lowest_common_ancestor(md_files) \o <<RES>>, resource_path.name)

\* optimize_resources, line 85
already_optimal(resource_path, target) == resource_path = target

\* variant: every attempt counts as moved
count_move_always_moved(st, success) == [st EXCEPT !.moved = @ + 1]

\* optimize_resources, lines 104-107
count_move(st, success) ==
    IF success THEN [st EXCEPT !.moved = @ + 1] ELSE [st EXCEPT !.errors = @ + 1]

\* variant: the dry run reports a failure
would_move_result_false == FALSE

\* _move_resource, line 147: what the dry run returns
would_move_result == TRUE

\* variant: Phase 3 classifies no group
plan_moves_nothing(grouped, conflict_paths) ==
    [moves |-> <<>>, skips |-> <<>>, stats |-> ZeroStats]

\* optimize_resources, Phase 3: the loop over grouped.items()
plan_moves(grouped, conflict_paths) ==
    LET RECURSIVE step(_, _)
        step(i, acc) ==
            IF i > Len(grouped) THEN acc
            ELSE LET g == grouped[i]
                     target == optimal_location(g.path, g.md_files)
                 IN IF g.path \in conflict_paths
                    THEN step(i + 1, [acc EXCEPT
                                !.stats.skipped_conflict = @ + 1,
                                !.skips = Append(@, [kind |-> "conflict", path |-> g.path])])
                    ELSE IF already_optimal(g.path, target)
                    THEN step(i + 1, [acc EXCEPT
                                !.stats.skipped_optimal = @ + 1,
                                !.skips = Append(@, [kind |-> "optimal", path |-> g.path])])
                    ELSE step(i + 1, [acc EXCEPT
                                !.moves = Append(@, [source |-> g.path, target |-> target,
                                                     md_files |-> g.md_files])])
    IN step(1, [moves |-> <<>>, skips |-> <<>>, stats |-> ZeroStats])

\* _update_markdown_link, lines 165-173: the link text written for the new path
relative_link(md_dir, resource_name, new_resource_path) ==
    IF IsPrefix(md_dir, new_resource_path.dir)
    THEN [folder |-> SubSeq(new_resource_path.dir, Len(md_dir) + 1,
                            Len(new_resource_path.dir)),
          name |-> new_resource_path.name]
    ELSE [folder |-> <<RES>>, name |-> resource_name]

\* _update_markdown_link, lines 177-181:
\* re.sub(r'(!\[\[)(?:.*?/)?' + name + r'(\|[^\]]+\]|\]\])', r'\1' + rel + r'\2', text)
\* A match starts at an embed marker.  The optional group is tried first: it
\* ends at the first link from there on, on the same line, that has a folder
\* and whose file name is the resource name.  Only when there is none, the
\* link at the marker itself matches if it has no folder and bears the name.
sub_optimizer(text, resource_name, rel) ==
    LET through(i, j) == /\ text[j].name = resource_name
                         /\ Len(text[j].folder) >= 1
                         /\ \A k \in (i + 1)..j : ~text[k].bol
        ends(i) == {j \in i..Len(text) : through(i, j)}
        bare(i) == text[i].name = resource_name /\ text[i].folder = <<>>
        first(i) == IF ends(i) # {} THEN CHOOSE j \in ends(i) : \A k \in ends(i) : j <= k
                    ELSE i
        RECURSIVE scan(_)
        scan(i) ==
            IF i > Len(text) THEN <<>>
            ELSE IF text[i].embed /\ (ends(i) # {} \/ bare(i))
            THEN <<Link(TRUE, rel.folder, rel.name, text[first(i)].disp, text[i].bol)>>
                 \o scan(first(i) + 1)
            ELSE <<text[i]>> \o scan(i + 1)
    IN scan(1)

\* ResourceOptimizer._update_markdown_link: the text written to the note
update_markdown_link(text, md_file, resource_name, new_resource_path) ==
    sub_optimizer(text, resource_name,
                  relative_link(md_file.dir, resource_name, new_resource_path))

\* variant: a note whose update fails is lost
update_all_unlinking(notes, md_files, bad, resource_name, target) ==
    [notes |-> [md \in DOMAIN notes \ bad |-> notes[md]],
     written |-> <<>>,
     errors |-> SelectSeq(md_files, LAMBDA md : md \in bad)]

\* _move_resource, lines 136-137: the loop over md_files; the notes in `bad`
\* raise OSError or UnicodeDecodeError in read_text / write_text
update_all(notes, md_files, bad, resource_name, target) ==
    LET RECURSIVE loop(_, _)
        loop(i, acc) ==
            IF i > Len(md_files) THEN acc
            ELSE LET md == md_files[i] IN
                 IF md \in bad \/ md \notin DOMAIN acc.notes
                 THEN loop(i + 1, [acc EXCEPT !.errors = Append(@, md)])
                 ELSE loop(i + 1,
                        [acc EXCEPT
                           !.notes[md].text =
                               update_markdown_link(@, md, resource_name, target),
                           !.written = Append(@, md)])
    IN loop(1, [notes |-> notes, written |-> <<>>, errors |-> <<>>])

\* Path.rename(target) on the resources: the source takes the target path
rename_file(files, source, target) ==
    [p \in (DOMAIN files \ {source}) \cup {target} |->
        IF p = target THEN files[source] ELSE files[p]]

Count(seq, x) == Cardinality({i \in 1..Len(seq) : seq[i] = x})

----
OptPhase1 ==
    /\ tool = "optimizer" /\ pc = "phase1"
    /\ references' = build_reference_array
    /\ pc' = "phase2"
    /\ UNCHANGED <<tool, execute, fs, fs0, walk, conflicts, moves, skips, stats,
                   mv, attempts, outcome, writes, upd_errors, dry, sortVars>>

OptPhase2 ==
    /\ tool = "optimizer" /\ pc = "phase2"
    /\ conflicts' = detect_conflicts(references)
    /\ pc' = "phase3"
    /\ UNCHANGED <<tool, execute, fs, fs0, walk, references, moves, skips, stats,
                   mv, attempts, outcome, writes, upd_errors, dry, sortVars>>

OptPhase3 ==
    /\ tool = "optimizer" /\ pc = "phase3"
    /\ LET plan == plan_moves(group_by_resource(references),
                              conflict_paths_of(conflicts))
       IN /\ moves' = plan.moves
          /\ skips' = plan.skips
          /\ stats' = plan.stats
          /\ attempts' = [i \in 1..Len(plan.moves) |-> 0]
          /\ outcome' = [i \in 1..Len(plan.moves) |-> "queued"]
    /\ mv' = 1
    /\ pc' = "phase4"
    /\ UNCHANGED <<tool, execute, fs, fs0, walk, references, conflicts, writes,
                   upd_errors, dry, sortVars>>

\* _move_resource with execute = False, and the counting of lines 104-105
OptWouldMove ==
    /\ tool = "optimizer" /\ pc = "phase4" /\ ~execute /\ mv <= Len(moves)
    /\ attempts' = [attempts EXCEPT ![mv] = @ + 1]
    /\ outcome' = [outcome EXCEPT ![mv] = "would_move"]
    /\ stats' = count_move(stats, would_move_result)
    /\ mv' = mv + 1
    /\ UNCHANGED <<tool, execute, pc, fs, fs0, walk, references, conflicts, moves,
                   skips, writes, upd_errors, dry, sortVars>>

\* _move_resource with execute = True: mkdir or rename raises OSError
OptMoveFails ==
    /\ tool = "optimizer" /\ pc = "phase4" /\ execute /\ mv <= Len(moves)
    /\ \E at \in {"mkdir", "rename"} :
          /\ fs' = IF at = "mkdir" THEN fs
                   ELSE [fs EXCEPT !.dirs = @ \cup WithParents(moves[mv].target.dir)]
          /\ outcome' = [outcome EXCEPT ![mv] = "error"]
    /\ attempts' = [attempts EXCEPT ![mv] = @ + 1]
    /\ stats' = count_move(stats, FALSE)
    /\ mv' = mv + 1
    /\ UNCHANGED <<tool, execute, pc, fs0, walk, references, conflicts, moves,
                   skips, writes, upd_errors, dry, sortVars>>

\* _move_resource with execute = True: the move succeeds, then every
\* referencing note is updated; a failing update is caught and printed
OptMoveResource ==
    /\ tool = "optimizer" /\ pc = "phase4" /\ execute /\ mv <= Len(moves)
    /\ moves[mv].source \in DOMAIN fs.resources
    /\ \E bad \in SUBSET Range(moves[mv].md_files) :
          LET m == moves[mv]
              upd == update_all(fs.notes, m.md_files, bad, m.source.name, m.target)
          IN /\ fs' = [notes |-> upd.notes,
                       resources |-> rename_file(fs.resources, m.source, m.target),
                       dirs |-> fs.dirs \cup WithParents(m.target.dir)]
             /\ writes' = [n \in DOMAIN writes |->
                               writes[n] \o [k \in 1..Count(upd.written, n) |-> m.source.name]]
             /\ upd_errors' = upd_errors \o upd.errors
    /\ attempts' = [attempts EXCEPT ![mv] = @ + 1]
    /\ outcome' = [outcome EXCEPT ![mv] = "moved"]
    /\ stats' = count_move(stats, TRUE)
    /\ mv' = mv + 1
    /\ UNCHANGED <<tool, execute, pc, fs0, walk, references, conflicts, moves,
                   skips, dry, sortVars>>

\* _print_summary: the run is over
OptSummary ==
    /\ tool = "optimizer" /\ pc = "phase4" /\ mv > Len(moves)
    /\ pc' = "done"
    /\ UNCHANGED <<tool, execute, fs, fs0, walk, references, conflicts, moves,
                   skips, stats, mv, attempts, outcome, writes, upd_errors, dry, sortVars>>

\* no earlier run: `run` counts the runs that are over
EmptyRun == [references |-> <<>>, moves |-> <<>>, skips |-> <<>>, stats |-> ZeroStats,
             outcome |-> <<>>, upd_errors |-> <<>>, run |-> 0]

\* cli.py: after the dry run the user runs the tool again with --execute
OptRerunExecute ==
    /\ tool = "optimizer" /\ pc = "done" /\ ~execute
    /\ dry' = [references |-> references, moves |-> moves, skips |-> skips,
               stats |-> stats, outcome |-> outcome, upd_errors |-> upd_errors,
               run |-> 1]
    /\ execute' = TRUE
    /\ pc' = "phase1"
    /\ references' = <<>> /\ conflicts' = <<>> /\ moves' = <<>> /\ skips' = <<>>
    /\ stats' = ZeroStats /\ mv' = 1 /\ attempts' = <<>> /\ outcome' = <<>>
    /\ UNCHANGED <<tool, fs, fs0, walk, writes, upd_errors, sortVars>>

\* cli.py: after the execute run the user runs the tool once more with
\* --execute, on the tree that run has left
OptRerunAgain ==
    /\ tool = "optimizer" /\ pc = "done" /\ execute /\ dry.run = 1
    /\ dry' = [references |-> references, moves |-> moves, skips |-> skips,
               stats |-> stats, outcome |-> outcome, upd_errors |-> upd_errors,
               run |-> 2]
    /\ pc' = "phase1"
    /\ references' = <<>> /\ conflicts' = <<>> /\ moves' = <<>> /\ skips' = <<>>
    /\ stats' = ZeroStats /\ mv' = 1 /\ attempts' = <<>> /\ outcome' = <<>>
    /\ UNCHANGED <<tool, execute, fs, fs0, walk, writes, upd_errors, sortVars>>

(***************************************************************************)
(* Initial trees of the optimizer.                                         *)
(***************************************************************************)
\* The optimizer reads the embedded and the linked form alike and writes the
\* folder "_resources" back, so its trees hold embedded links only; what
\* varies is which names a note links and which links share a line.
OptLinks == {Link(TRUE, <<RES>>, n, "", b) : n \in ResNames, b \in BOOLEAN}
Texts(k) == {t \in UNION {[1..m -> OptLinks] : m \in 0..k} : t = <<>> \/ t[1].bol}

\* a note: its links, whether it can be read, whether it starts with a front
\* matter block (--- ... ---), and the text behind 'Created at:' on the first
\* such line of its head ("" when there is none)
NoDate == ""
Note(text, readable, front, created) ==
    [text |-> text, readable |-> readable, front |-> front, created |-> created]
NoteFile(text, created) == Note(text, TRUE, TRUE, created)
ResFile(content, readable) == [content |-> content, readable |-> readable]

\* the directories holding copies of one name, and their contents; contents
\* are interchangeable, so the first copy holds "c1"
CopySets == {S \in SUBSET (1..Len(Places)) : Cardinality(S) <= MaxCopies}
Min(S) == CHOOSE i \in S : \A j \in S : i <= j
CopyContents(S) == {c \in [S -> Contents] : S = {} \/ c[Min(S)] = "c1"}

DirsOf(notes, resources) ==
    UNION {WithParents(p.dir) : p \in DOMAIN notes \cup DOMAIN resources}

OptTree(d1, t1, d2, t2, Sx, cx, Sy) ==
    LET notes == (P(d1, Note1) :> NoteFile(t1, "")) @@ (P(d2, Note2) :> NoteFile(t2, ""))
        resources ==
            [p \in {P(Places[i], ResX) : i \in Sx} \cup {P(Places[i], ResY) : i \in Sy} |->
                IF p.name = ResX
                THEN ResFile(cx[CHOOSE i \in Sx : Places[i] = p.dir], TRUE)
                ELSE ResFile("c1", TRUE)]
    IN [notes |-> notes, resources |-> resources, dirs |-> DirsOf(notes, resources)]

InitRun ==
    /\ references = <<>> /\ conflicts = <<>> /\ moves = <<>> /\ skips = <<>>
    /\ stats = ZeroStats /\ mv = 1 /\ attempts = <<>> /\ outcome = <<>>
    /\ upd_errors = <<>>
    /\ dry = EmptyRun
    /\ srt = NoSort /\ log = <<>>

InitOptimizer ==
    /\ tool = "optimizer"
    /\ execute = FALSE
    /\ pc = "phase1"
    /\ \E d1 \in {DirA, DirAB}, d2 \in {DirAB, DirAC} :
       \E t1 \in Texts(MaxLinks) :
       \E t2 \in Texts(MaxLinks - Len(t1)) :
       \E Sx \in CopySets :
       \E cx \in CopyContents(Sx) :
       \E Sy \in {S \in CopySets : Cardinality(S) <= 1} :
          /\ fs = OptTree(d1, t1, d2, t2, Sx, cx, Sy)
          /\ walk \in IF Cardinality(Sx) >= 2 THEN {Places, Reverse(Places)}
                      ELSE {Places}
    /\ fs0 = fs
    /\ writes = [n \in DOMAIN fs.notes |-> <<>>]
    /\ call = NoCall
    /\ InitRun

(***************************************************************************)
(* Year-sort: MarkdownParser, ResourceManager, FileSorter.                 *)
(***************************************************************************)
resources_dir == <<RES>>          \* cli.py --resources: <base>/_resources

\* The characters of the note stems and of the 'Created at:' texts of the model.
Chars(s) ==
    CASE s = "n1" -> <<"n", "1">>
      [] s = "n2" -> <<"n", "2">>
      [] s = "20230517_n" -> <<"2", "0", "2", "3", "0", "5", "1", "7", "_", "n">>
      [] s = "20240102_n" -> <<"2", "0", "2", "4", "0", "1", "0", "2", "_", "n">>
      [] s = "20231302_n" -> <<"2", "0", "2", "3", "1", "3", "0", "2", "_", "n">>
      [] s = "20230532_n" -> <<"2", "0", "2", "3", "0", "5", "3", "2", "_", "n">>
      [] s = "20230017_n" -> <<"2", "0", "2", "3", "0", "0", "1", "7", "_", "n">>
      [] s = "20230500_n" -> <<"2", "0", "2", "3", "0", "5", "0", "0", "_", "n">>
      [] s = "18991231_n" -> <<"1", "8", "9", "9", "1", "2", "3", "1", "_", "n">>
      [] s = "21010101_n" -> <<"2", "1", "0", "1", "0", "1", "0", "1", "_", "n">>
      [] s = "2023051_n" -> <<"2", "0", "2", "3", "0", "5", "1", "_", "n">>
      [] s = "20230517n" -> <<"2", "0", "2", "3", "0", "5", "1", "7", "n">>
      [] s = "" -> <<>>
      [] s = "2023-05-17" -> <<"2", "0", "2", "3", "-", "0", "5", "-", "1", "7">>
      [] s = "2024-01-02" -> <<"2", "0", "2", "4", "-", "0", "1", "-", "0", "2">>
      [] s = "2023-13-45" -> <<"2", "0", "2", "3", "-", "1", "3", "-", "4", "5">>
      [] s = "2023-05-17 10:30" -> <<"2", "0", "2", "3", "-", "0", "5", "-", "1", "7", " ", "1", "0", ":", "3", "0">>
      [] s = "2023/05/17" -> <<"2", "0", "2", "3", "/", "0", "5", "/", "1", "7">>
      [] s = "23-05-17" -> <<"2", "3", "-", "0", "5", "-", "1", "7">>
      [] s = "2023-5-17" -> <<"2", "0", "2", "3", "-", "5", "-", "1", "7">>

DigitChars == <<"0", "1", "2", "3", "4", "5", "6", "7", "8", "9">>
IsDigit(c) == \E i \in 1..Len(DigitChars) : DigitChars[i] = c
\* int() of a run of digits
int(cs) ==
    LET value(c) == (CHOOSE i \in 1..Len(DigitChars) : DigitChars[i] = c) - 1
        RECURSIVE upto(_)
        upto(k) == IF k = 0 THEN 0 ELSE 10 * upto(k - 1) + value(cs[k])
    IN upto(Len(cs))
\* str(year) of a year captured as four digits: the digits themselves, as no
\* year of the model starts with 0
year_str(cs) == cs[1] \o cs[2] \o cs[3] \o cs[4]

\* MarkdownParser.extract_year_from_filename: r'^(\d{4})(\d{2})(\d{2})_'
extract_year_from_filename(md_file) ==
    LET filename == Chars(md_file.name.stem)
        match == /\ Len(filename) >= 9
                 /\ \A i \in 1..8 : IsDigit(filename[i])
                 /\ filename[9] = "_"
        year == int(SubSeq(filename, 1, 4))
        month == int(SubSeq(filename, 5, 6))
        day == int(SubSeq(filename, 7, 8))
    IN IF ~match THEN NoYear
       ELSE IF 1900 <= year /\ year <= 2100 /\ 1 <= month /\ month <= 12
               /\ 1 <= day /\ day <= 31
       THEN year_str(filename)
       ELSE NoYear

\* extract_year_from_frontmatter, line 59:
\* re.search(r'^Created at:\s*(\d{4})-\d{2}-\d{2}', frontmatter, re.MULTILINE)
\* on the text that follows 'Created at:' and its white space
created_match(created) ==
    LET cs == Chars(created)
    IN /\ Len(cs) >= 10
       /\ \A i \in {1, 2, 3, 4, 6, 7, 9, 10} : IsDigit(cs[i])
       /\ cs[5] = "-" /\ cs[8] = "-"

\* variant: the date of the file name is preferred to the front matter
extract_year_from_frontmatter_name_first(md_file) ==
    IF ~fs.notes[md_file].readable THEN NoYear
    ELSE IF extract_year_from_filename(md_file) # NoYear
    THEN extract_year_from_filename(md_file)
    ELSE IF fs.notes[md_file].front /\ created_match(fs.notes[md_file].created)
    THEN year_str(Chars(fs.notes[md_file].created))
    ELSE NoYear

\* MarkdownParser.extract_year_from_frontmatter
extract_year_from_frontmatter(md_file) ==
    LET content == fs.notes[md_file]
    IN IF ~content.readable THEN NoYear
       ELSE IF content.front /\ created_match(content.created)
       THEN year_str(Chars(content.created))
       ELSE extract_year_from_filename(md_file)

\* variant: the first numbered name is taken without looking
get_unique_filename_first(target_path) ==
    IF ~Exists(target_path) THEN target_path
    ELSE P(target_path.dir,
           N(target_path.name.stem \o "_" \o ToString(1), target_path.name.ext))

\* ResourceManager.get_unique_filename
get_unique_filename(target_path) ==
    LET numbered(counter) ==
            P(target_path.dir,
              N(target_path.name.stem \o "_" \o ToString(counter), target_path.name.ext))
        RECURSIVE try(_)
        try(counter) == IF ~Exists(numbered(counter)) THEN numbered(counter)
                        ELSE try(counter + 1)
    IN IF ~Exists(target_path) THEN target_path ELSE try(1)

\* update_resource_link, line 118: the template r'\1' + new_name + r'\2'.
\* A new name that starts with a digit runs into the group reference: with
\* two octal digits in front the template reads \1dd as one character and the
\* text '![[_resources/' is lost, with any other digit in front it names a
\* group that does not exist and re.sub raises re.error.  The stems of the
\* model that start with two octal digits, and those that start with a digit
\* that is not followed by an octal pair:
OctalLed == {"2023", "2023_1"}
DigitLed == {"9a", "9a_1"}
template_class(new_name) ==
    IF new_name.stem \in OctalLed THEN "octal"
    ELSE IF new_name.stem \in DigitLed THEN "invalid_group"
    ELSE "plain"

\* MarkdownParser.update_resource_link:
\* re.sub(r'(!\[\[_resources/)' + old + r'(\|[^\]]+\]\]|\]\])', r'\1' + new + r'\2', text)
\* the text written when re.sub returns; a link whose marker and folder are
\* lost is no link any more
update_resource_link(text, old_name, new_name) ==
    LET hit(l) == l.embed /\ l.folder = <<RES>> /\ l.name = old_name
    IN IF template_class(new_name) = "octal"
       THEN SelectSeq(text, LAMBDA l : ~hit(l))
       ELSE [k \in 1..Len(text) |->
                IF hit(text[k]) THEN [text[k] EXCEPT !.name = new_name] ELSE text[k]]

\* update_resource_link: re.sub raises re.error, which the except clause of
\* lines 125-127 does not catch
update_resource_link_raises(new_name) == template_class(new_name) = "invalid_group"

\* variant: an existing target is never compared with the source
move_status_no_compare(source_resource, target_resource) ==
    IF ~Exists(source_resource) THEN "missing"
    ELSE IF Exists(target_resource) THEN "renamed"
    ELSE "moved"

\* ResourceManager.move_resource_file: the branch taken
move_status(source_resource, target_resource) ==
    IF ~Exists(source_resource) THEN "missing"
    ELSE IF Exists(target_resource)
    THEN IF files_are_identical(source_resource, target_resource)
         THEN "identical" ELSE "renamed"
    ELSE "moved"

\* FileSorter._initialize_stats
SortZeroStats == [moved |-> 0, skipped_no_date |-> 0, skipped_exists |-> 0,
                  resources_moved |-> 0, resources_renamed |-> 0,
                  resources_missing |-> 0, errors |-> 0]

\* variant: a missing source counts as an error
count_resource_missing_as_error(st, success, status) ==
    IF ~success \/ status = "missing" THEN [st EXCEPT !.errors = @ + 1]
    ELSE IF status = "moved" THEN [st EXCEPT !.resources_moved = @ + 1]
    ELSE IF status = "renamed" THEN [st EXCEPT !.resources_renamed = @ + 1]
    ELSE st

\* move_resources_for_markdown, lines 158-167, added up by _process_file
count_resource(st, success, status) ==
    IF ~success THEN [st EXCEPT !.errors = @ + 1]
    ELSE IF status = "moved" THEN [st EXCEPT !.resources_moved = @ + 1]
    ELSE IF status = "renamed" THEN [st EXCEPT !.resources_renamed = @ + 1]
    ELSE IF status = "missing" THEN [st EXCEPT !.resources_missing = @ + 1]
    ELSE st

Entry(md, what, name, status, new_filename) ==
    [md |-> md, what |-> what, name |-> name, status |-> status,
     new_filename |-> new_filename]

CurNote == srt.md_files[srt.i]
NextNote == [srt EXCEPT !.i = @ + 1, !.resource_links = <<>>, !.j = 1,
                        !.md_file_for_update = NoPath, !.year_dir = <<>>]

----
\* sort_files, lines 23-49: the checks and the glob
SortStart ==
    /\ tool = "sorter" /\ pc = "start"
    /\ LET md_files == SelectSeq([k \in 1..Len(NoteNames) |-> P(base_path, NoteNames[k])],
                                 LAMBDA p : p \in DOMAIN fs.notes)
       IN /\ srt' = [NoSort EXCEPT !.md_files = md_files,
                                   !.resources_path = (resources_dir \in fs.dirs)]
          /\ pc' = IF md_files = <<>> THEN "done" ELSE "note"
    /\ stats' = SortZeroStats
    /\ UNCHANGED <<tool, execute, fs, fs0, walk, writes, upd_errors, dry, log, optVars, call>>

\* _process_file, lines 95-100
SortSkipNoDate ==
    /\ tool = "sorter" /\ pc = "note" /\ srt.i <= Len(srt.md_files)
    /\ extract_year_from_frontmatter(CurNote) = NoYear
    /\ stats' = [stats EXCEPT !.skipped_no_date = @ + 1]
    /\ log' = Append(log, Entry(CurNote, "note", CurNote.name, "skipped_no_date", NoName))
    /\ srt' = NextNote
    /\ UNCHANGED <<tool, execute, pc, fs, fs0, walk, writes, upd_errors, dry, optVars, call>>

TargetPath == P(<<extract_year_from_frontmatter(CurNote)>>, CurNote.name)

\* _process_file, lines 102-110
SortSkipExists ==
    /\ tool = "sorter" /\ pc = "note" /\ srt.i <= Len(srt.md_files)
    /\ extract_year_from_frontmatter(CurNote) # NoYear
    /\ Exists(TargetPath)
    /\ stats' = [stats EXCEPT !.skipped_exists = @ + 1]
    /\ log' = Append(log, Entry(CurNote, "note", CurNote.name, "skipped_exists", NoName))
    /\ srt' = NextNote
    /\ UNCHANGED <<tool, execute, pc, fs, fs0, walk, writes, upd_errors, dry, optVars, call>>

\* Path.rename(target) on the notes
rename_note(f, source, target) ==
    [f EXCEPT !.notes = rename_file(f.notes, source, target),
              !.dirs = @ \cup {target.dir}]

\* variant: the note stays where it is
move_markdown_file_never(f, md_file, target_path) == f

\* variant: the note is renamed whatever the mode
move_markdown_file_always(f, md_file, target_path) ==
    rename_note(f, md_file, target_path)

\* _move_markdown_file, lines 159-171, when nothing raises: the filesystem after it
move_markdown_file(f, md_file, target_path) ==
    IF execute THEN rename_note(f, md_file, target_path) ELSE f

\* _process_file, lines 112-133, with _move_markdown_file succeeding
SortMoveNote ==
    /\ tool = "sorter" /\ pc = "note" /\ srt.i <= Len(srt.md_files)
    /\ extract_year_from_frontmatter(CurNote) # NoYear
    /\ ~Exists(TargetPath)
    /\ LET resource_links == IF srt.resources_path
                             THEN extract_resource_links(fs.notes[CurNote].text)
                             ELSE <<>>
       IN /\ fs' = move_markdown_file(fs, CurNote, TargetPath)
          /\ writes' = [n \in DOMAIN fs'.notes |->
                           IF n \in DOMAIN writes THEN writes[n] ELSE <<>>]
          /\ IF srt.resources_path /\ resource_links # <<>>
             THEN /\ pc' = "resources"
                  /\ srt' = [srt EXCEPT
                               !.resource_links = resource_links, !.j = 1,
                               !.md_file_for_update = IF execute THEN TargetPath ELSE CurNote,
                               !.year_dir = TargetPath.dir]
             ELSE /\ pc' = "note"
                  /\ srt' = NextNote
    /\ stats' = [stats EXCEPT !.moved = @ + 1]
    /\ log' = Append(log, Entry(CurNote, "note", CurNote.name, "moved", NoName))
    /\ UNCHANGED <<tool, execute, fs0, walk, upd_errors, dry, optVars, call>>

\* _move_markdown_file, lines 165-168: mkdir or rename raises OSError
SortMoveNoteFails ==
    /\ tool = "sorter" /\ pc = "note" /\ srt.i <= Len(srt.md_files)
    /\ execute
    /\ extract_year_from_frontmatter(CurNote) # NoYear
    /\ ~Exists(TargetPath)
    /\ \E at \in {"mkdir", "rename"} :
          fs' = IF at = "mkdir" THEN fs ELSE [fs EXCEPT !.dirs = @ \cup {TargetPath.dir}]
    /\ stats' = [stats EXCEPT !.errors = @ + 1]
    /\ log' = Append(log, Entry(CurNote, "note", CurNote.name, "error", NoName))
    /\ srt' = NextNote
    /\ UNCHANGED <<tool, execute, pc, fs0, walk, writes, upd_errors, dry, optVars, call>>

CurLink == srt.resource_links[srt.j]
SourceResource == P(resources_dir, CurLink)
TargetResource == P(srt.year_dir \o <<RES>>, CurLink)

\* move_resources_for_markdown, one turn of the loop: move_resource_file
\* returns success
SortResource ==
    /\ tool = "sorter" /\ pc = "resources" /\ srt.j <= Len(srt.resource_links)
    /\ LET status == move_status(SourceResource, TargetResource)
           unique_target == get_unique_filename(TargetResource)
           md == srt.md_file_for_update
       IN /\ \/ /\ status \in {"missing", "identical"} \/ ~execute
                /\ UNCHANGED <<fs, writes, upd_errors>>
             \/ /\ status = "moved" /\ execute
                /\ fs' = [fs EXCEPT
                            !.resources = rename_file(@, SourceResource, TargetResource),
                            !.dirs = @ \cup WithParents(TargetResource.dir)]
                /\ UNCHANGED <<writes, upd_errors>>
             \/ /\ status = "renamed" /\ execute
                /\ \E updated \in BOOLEAN :
                      /\ fs' = [fs EXCEPT
                                  !.resources = rename_file(@, SourceResource, unique_target),
                                  !.notes[md].text =
                                      IF updated
                                      THEN update_resource_link(@, CurLink, unique_target.name)
                                      ELSE @]
                      /\ writes' = IF updated THEN [writes EXCEPT ![md] = Append(@, CurLink)]
                                   ELSE writes
                      /\ upd_errors' = IF updated THEN upd_errors ELSE Append(upd_errors, md)
          /\ stats' = count_resource(stats, TRUE, status)
          /\ log' = Append(log, Entry(CurNote, "resource", CurLink, status,
                                      IF status = "renamed" THEN unique_target.name
                                      ELSE NoName))
    /\ srt' = [srt EXCEPT !.j = @ + 1]
    /\ UNCHANGED <<tool, execute, pc, fs0, walk, dry, optVars, call>>

\* move_resource_file, lines 95-97 and 110-112: mkdir or rename raises OSError
SortResourceFails ==
    /\ tool = "sorter" /\ pc = "resources" /\ srt.j <= Len(srt.resource_links)
    /\ execute
    /\ move_status(SourceResource, TargetResource) \in {"moved", "renamed"}
    /\ \E at \in {"mkdir", "rename"} :
          fs' = IF at = "rename"
                   /\ move_status(SourceResource, TargetResource) = "moved"
                THEN [fs EXCEPT !.dirs = @ \cup WithParents(TargetResource.dir)]
                ELSE fs
    /\ stats' = count_resource(stats, FALSE, "error")
    /\ log' = Append(log, Entry(CurNote, "resource", CurLink, "error", NoName))
    /\ srt' = [srt EXCEPT !.j = @ + 1]
    /\ UNCHANGED <<tool, execute, pc, fs0, walk, writes, upd_errors, dry, optVars, call>>

\* move_resources_for_markdown returns: _process_file is over
SortNoteDone ==
    /\ tool = "sorter" /\ pc = "resources" /\ srt.j > Len(srt.resource_links)
    /\ pc' = "note"
    /\ srt' = NextNote
    /\ UNCHANGED <<tool, execute, fs, fs0, walk, stats, writes, upd_errors, dry,
                   log, optVars, call>>

\* sort_files, line 57: _print_summary
SortSummary ==
    /\ tool = "sorter" /\ pc = "note" /\ srt.i > Len(srt.md_files)
    /\ pc' = "done"
    /\ UNCHANGED <<tool, execute, fs, fs0, walk, stats, writes, upd_errors, dry,
                   srt, log, optVars, call>>

\* cli.py: after the dry run the user runs the tool again with --execute
SortRerunExecute ==
    /\ tool = "sorter" /\ pc = "done" /\ ~execute
    /\ dry' = [log |-> log, stats |-> stats]
    /\ execute' = TRUE
    /\ pc' = "start"
    /\ srt' = NoSort /\ log' = <<>> /\ stats' = SortZeroStats
    /\ UNCHANGED <<tool, fs, fs0, walk, writes, upd_errors, optVars, call>>

(***************************************************************************)
(* Initial trees of the year-sort.                                         *)
(***************************************************************************)
MaxSuffix == 1    \* numbered files <stem>_1 .. <stem>_k in an initial year folder

Year1 == "2023"
Year2 == "2024"
Date1 == "2023-05-17"
Date2 == "2024-01-02"
SortLinks == {Link(e, <<RES>>, n, "", TRUE) : e \in BOOLEAN, n \in ResNames}
SortTexts(k) == UNION {[1..m -> SortLinks] : m \in 0..k}

Numbered(name, k) == N(name.stem \o "_" \o ToString(k), name.ext)

\* notes n1, n2 in the base directory; n1 may already stand in the first year
\* folder; the resources directory holds the files of `have`; the first year
\* folder may hold x with content cx and its numbered variants x_1 .. x_k
SortTree(y1, t1, y2, t2, there, have, cx, k) ==
    LET notes == (P(base_path, Note1) :> NoteFile(t1, y1))
                 @@ (P(base_path, Note2) :> NoteFile(t2, y2))
                 @@ [p \in IF there THEN {P(<<Year1>>, Note1)} ELSE {} |-> NoteFile(<<>>, Date1)]
        resources ==
            [p \in {P(resources_dir, n) : n \in have} |-> ResFile("c1", TRUE)]
            @@ [p \in IF cx = "" THEN {} ELSE {P(<<Year1, RES>>, ResX)} |-> ResFile(cx, TRUE)]
            @@ [p \in {P(<<Year1, RES>>, Numbered(ResX, q)) : q \in 1..k} |-> ResFile("c2", TRUE)]
    IN [notes |-> notes, resources |-> resources, dirs |-> DirsOf(notes, resources)]

InitSorter ==
    /\ tool = "sorter"
    /\ execute = FALSE
    /\ pc = "start"
    /\ \E y1 \in {NoDate, Date1}, y2 \in {Date1, Date2} :
       \E t1 \in SortTexts(MaxLinks) :
       \E t2 \in SortTexts(MaxLinks - Len(t1)) :
       \E there \in IF y1 = Date1 THEN BOOLEAN ELSE {FALSE} :
       \E have \in {{}, {ResY}, {ResX, ResY}}, cx \in {"", "c1", "c2"} :
       \E k \in IF cx = "c2" THEN 0..MaxSuffix ELSE {0} :
          fs = SortTree(y1, t1, y2, t2, there, have, cx, k)
    /\ fs0 = fs
    /\ walk = Places
    /\ writes = [n \in DOMAIN fs.notes |-> <<>>]
    /\ stats = SortZeroStats
    /\ references = <<>> /\ conflicts = <<>> /\ moves = <<>> /\ skips = <<>>
    /\ mv = 1 /\ attempts = <<>> /\ outcome = <<>>
    /\ upd_errors = <<>>
    /\ dry = [log |-> <<>>, stats |-> SortZeroStats]
    /\ srt = NoSort /\ log = <<>> /\ call = NoCall

NextSorter ==
    \/ SortStart \/ SortSkipNoDate \/ SortSkipExists
    \/ SortMoveNote \/ SortMoveNoteFails
    \/ SortResource \/ SortResourceFails \/ SortNoteDone
    \/ SortSummary \/ SortRerunExecute

SpecSorter == InitSorter /\ [][NextSorter]_vars

NextOptimizer ==
    \/ OptPhase1 \/ OptPhase2 \/ OptPhase3
    \/ OptWouldMove \/ OptMoveFails \/ OptMoveResource
    \/ OptSummary \/ OptRerunExecute

SpecOptimizer == InitOptimizer /\ [][NextOptimizer]_vars

\* the optimizer run three times on one tree: dry, execute, execute
NextRerun == NextOptimizer \/ OptRerunAgain
SpecRerun == InitOptimizer /\ [][NextRerun]_vars

(***************************************************************************)
(* find_lowest_common_ancestor as a function of its argument.              *)
(***************************************************************************)
DirABD == <<"A", "B", "D">>
DirE == <<"E">>
LcaPaths == {P(base_path, Note1), P(DirA, Note1), P(DirAB, Note1), P(DirAB, Note2),
             P(DirAC, Note2), P(DirABD, Note1), P(DirE, Note2)}
PathLists(k) == UNION {[1..m -> LcaPaths] : m \in 0..k}

InitLca ==
    /\ tool = "lca"
    /\ execute = FALSE
    /\ pc = "call"
    /\ fs = [notes |-> <<>>, resources |-> <<>>, dirs |-> {}]
    /\ fs0 = fs
    /\ walk = Places
    /\ writes = <<>>
    /\ stats = ZeroStats
    /\ InitRun
    /\ \E paths \in PathLists(MaxPaths) :
          call = [fn |-> "find_lowest_common_ancestor", args |-> paths,
                  result |-> <<>>, returned |-> FALSE]

LcaCall ==
    /\ tool = "lca" /\ pc = "call"
    /\ call' = [call EXCEPT !.result = find_lowest_common_ancestor(call.args),
                            !.returned = TRUE]
    /\ pc' = "done"
    /\ UNCHANGED <<tool, execute, fs, fs0, walk, stats, writes, upd_errors, dry,
                   srt, log, optVars>>

NextLca == LcaCall

SpecLca == InitLca /\ [][NextLca]_vars

(***************************************************************************)
(* build_reference_array on trees that hold unreadable files.              *)
(***************************************************************************)
\* one note in A; the copies of x stand in the directories of Sx with the
\* contents cx, and the copies of rx can be read
AnalyzerTree(t1, Sx, cx, rx) ==
    LET notes == (P(DirA, Note1) :> NoteFile(t1, ""))
        resources ==
            [p \in {P(Places[i], ResX) : i \in Sx} |->
                LET i == CHOOSE j \in Sx : Places[j] = p.dir
                IN ResFile(cx[i], i \in rx)]
    IN [notes |-> notes, resources |-> resources, dirs |-> DirsOf(notes, resources)]

InitAnalyzer ==
    /\ tool = "analyzer"
    /\ execute = FALSE
    /\ pc = "phase1"
    /\ \E t1 \in Texts(MaxLinks) :
       \E Sx \in CopySets :
       \E cx \in CopyContents(Sx) :
       \E rx \in SUBSET Sx :
          fs = AnalyzerTree(t1, Sx, cx, rx)
    /\ walk \in {Places, Reverse(Places)}
    /\ fs0 = fs
    /\ writes = [n \in DOMAIN fs.notes |-> <<>>]
    /\ call = NoCall
    /\ InitRun

\* optimize_resources, Phase 1 alone
AnalyzerBuild ==
    /\ tool = "analyzer" /\ pc = "phase1"
    /\ references' = build_reference_array
    /\ pc' = "done"
    /\ UNCHANGED <<tool, execute, fs, fs0, walk, conflicts, moves, skips, stats,
                   mv, attempts, outcome, writes, upd_errors, dry, sortVars>>

NextAnalyzer == AnalyzerBuild

SpecAnalyzer == InitAnalyzer /\ [][NextAnalyzer]_vars

\* the optimizer on a tree in which some copies cannot be read
InitUnreadable ==
    /\ tool = "optimizer"
    /\ execute = FALSE
    /\ pc = "phase1"
    /\ \E t1 \in Texts(MaxLinks) :
       \E Sx \in CopySets :
       \E cx \in CopyContents(Sx) :
       \E rx \in SUBSET Sx :
          fs = AnalyzerTree(t1, Sx, cx, rx)
    /\ walk \in {Places, Reverse(Places)}
    /\ fs0 = fs
    /\ writes = [n \in DOMAIN fs.notes |-> <<>>]
    /\ call = NoCall
    /\ InitRun

SpecUnreadable == InitUnreadable /\ [][NextOptimizer]_vars

(***************************************************************************)
(* The two link rewrites as functions of the note text.                    *)
(***************************************************************************)
ResD == N("2023", "png")
Res9 == N("9a", "png")
Folders == {<<>>, <<RES>>}
Displays == {"", "d"}

\* the links of a note handed to update_resource_link; line breaks play no
\* part in its pattern
SorterLinks ==
    {Link(e, f, n, d, TRUE) : e \in BOOLEAN, f \in Folders,
                              n \in {ResX, ResY, ResD, Res9}, d \in Displays}
\* the links of a note handed to _update_markdown_link
OptimizerLinks ==
    {Link(e, f, n, d, b) : e \in BOOLEAN, f \in Folders, n \in ResNames,
                           d \in Displays, b \in BOOLEAN}
TextsOf(links, k) ==
    {t \in UNION {[1..m -> links] : m \in 0..k} : t = <<>> \/ t[1].bol}

InitRewrite ==
    /\ tool = "rewrite"
    /\ execute = TRUE
    /\ pc = "call"
    /\ fs = [notes |-> <<>>, resources |-> <<>>, dirs |-> {}]
    /\ fs0 = fs
    /\ walk = Places
    /\ writes = <<>>
    /\ stats = ZeroStats
    /\ InitRun
    /\ \/ \E text \in TextsOf(SorterLinks, MaxLinks) :
          \E old_name \in {ResX, ResY, ResD, Res9} :
             call = [fn |-> "update_resource_link",
                     args |-> [text |-> text, old_name |-> old_name,
                               new_name |-> Numbered(old_name, 1)],
                     result |-> <<>>, returned |-> FALSE]
       \/ \E text \in TextsOf(OptimizerLinks, MaxLinks) :
          \E md_dir \in {DirA, DirAB} :
             call = [fn |-> "_update_markdown_link",
                     args |-> [text |-> text, md_file |-> P(md_dir, Note1),
                               resource_name |-> ResX,
                               new_resource_path |-> P(DirA \o <<RES>>, ResX)],
                     result |-> <<>>, returned |-> FALSE]

\* MarkdownParser.update_resource_link on a note that can be read and written
SorterRewriteCall ==
    /\ tool = "rewrite" /\ pc = "call" /\ call.fn = "update_resource_link"
    /\ LET a == call.args
       IN call' = [call EXCEPT
                     !.result = IF update_resource_link_raises(a.new_name)
                                THEN [raised |-> TRUE, text |-> a.text]
                                ELSE [raised |-> FALSE,
                                      text |-> update_resource_link(a.text, a.old_name,
                                                                    a.new_name)],
                     !.returned = TRUE]
    /\ pc' = "done"
    /\ UNCHANGED <<tool, execute, fs, fs0, walk, stats, writes, upd_errors, dry,
                   srt, log, optVars>>

\* ResourceOptimizer._update_markdown_link on a note that can be read and written
OptimizerRewriteCall ==
    /\ tool = "rewrite" /\ pc = "call" /\ call.fn = "_update_markdown_link"
    /\ LET a == call.args
       IN call' = [call EXCEPT
                     !.result = [raised |-> FALSE,
                                 text |-> update_markdown_link(a.text, a.md_file,
                                              a.resource_name, a.new_resource_path)],
                     !.returned = TRUE]
    /\ pc' = "done"
    /\ UNCHANGED <<tool, execute, fs, fs0, walk, stats, writes, upd_errors, dry,
                   srt, log, optVars>>

NextRewrite == SorterRewriteCall \/ OptimizerRewriteCall

SpecRewrite == InitRewrite /\ [][NextRewrite]_vars

(***************************************************************************)
(* FileHasher on its own: two paths, each missing, unreadable or readable. *)
(***************************************************************************)
HashPaths == {P(Places[i], ResX) : i \in 1..Len(Places)}
HashFiles == {ResFile(c, r) : c \in Contents, r \in BOOLEAN}

InitHasher ==
    /\ tool = "hasher"
    /\ execute = TRUE
    /\ pc = "call"
    /\ \E S \in SUBSET HashPaths : \E f \in [S -> HashFiles] :
          fs = [notes |-> <<>>, resources |-> f, dirs |-> DirsOf(<<>>, f)]
    /\ fs0 = fs
    /\ walk = Places
    /\ writes = <<>>
    /\ stats = ZeroStats
    /\ InitRun
    /\ \E a \in HashPaths, b \in HashPaths :
          call = [fn |-> "files_are_identical", args |-> <<a, b>>,
                  result |-> FALSE, returned |-> FALSE]

\* FileHasher.files_are_identical(file1, file2)
HasherCall ==
    /\ tool = "hasher" /\ pc = "call"
    /\ call' = [call EXCEPT !.result = files_are_identical(call.args[1], call.args[2]),
                            !.returned = TRUE]
    /\ pc' = "done"
    /\ UNCHANGED <<tool, execute, fs, fs0, walk, stats, writes, upd_errors, dry,
                   srt, log, optVars>>

NextHasher == HasherCall

SpecHasher == InitHasher /\ [][NextHasher]_vars

(***************************************************************************)
(* Year extraction on its own: one note, its name and its head.            *)
(***************************************************************************)
YearStems == {"n1", "20230517_n", "20240102_n", "20231302_n", "20230532_n",
              "20230017_n", "20230500_n", "18991231_n", "21010101_n",
              "2023051_n", "20230517n"}
CreatedTexts == {NoDate, Date1, Date2, "2023-13-45", "2023-05-17 10:30",
                 "2023/05/17", "23-05-17", "2023-5-17"}

InitYear ==
    /\ tool = "year"
    /\ execute = TRUE
    /\ pc = "call"
    /\ \E stem \in YearStems, created \in CreatedTexts :
       \E readable \in BOOLEAN, front \in BOOLEAN :
          LET md_file == P(base_path, N(stem, "md"))
              notes == md_file :> Note(<<>>, readable, front, created)
          IN /\ fs = [notes |-> notes, resources |-> <<>>, dirs |-> {base_path}]
             /\ call = [fn |-> "extract_year_from_frontmatter", args |-> <<md_file>>,
                        result |-> NoYear, returned |-> FALSE]
    /\ fs0 = fs
    /\ walk = Places
    /\ writes = <<>>
    /\ stats = ZeroStats
    /\ InitRun

\* MarkdownParser.extract_year_from_frontmatter(file_path)
YearCall ==
    /\ tool = "year" /\ pc = "call"
    /\ call' = [call EXCEPT !.result = extract_year_from_frontmatter(call.args[1]),
                            !.returned = TRUE]
    /\ pc' = "done"
    /\ UNCHANGED <<tool, execute, fs, fs0, walk, stats, writes, upd_errors, dry,
                   srt, log, optVars>>

NextYear == YearCall

SpecYear == InitYear /\ [][NextYear]_vars

(***************************************************************************)
(* The whole program: either tool, a dry run followed by an execute run.   *)
(***************************************************************************)
Init == InitOptimizer \/ InitSorter
Next == NextOptimizer \/ NextSorter
Spec == Init /\ [][Next]_vars

\* the year folder of a note whose front matter carries one of the two dates
YearOf(created) ==
    IF created = Date1 THEN Year1 ELSE IF created = Date2 THEN Year2 ELSE ""

(***************************************************************************)
(* Properties.                                                             *)
(***************************************************************************)
\* the notes that reference a resource name when the first run starts
NotesReferencing(n) ==
    {md \in DOMAIN fs0.notes : n \in Range(extract_resource_links(fs0.notes[md].text))}

\* the files of a resource name when the first run starts, and their fingerprints
FilesNamed(n) == {p \in DOMAIN fs0.resources : p.name = n}
Fingerprint(p) ==
    IF fs0.resources[p].readable THEN Digest(fs0.resources[p].content) ELSE NoneHash

\* the deepest directory that is an ancestor of, or equal to, the directory of
\* every path of a non-empty set
DeepestCommonDir(S) ==
    LET common == {d \in UNION {WithParents(p.dir) : p \in S} :
                      \A p \in S : IsPrefix(d, p.dir)}
    IN CHOOSE d \in common : \A e \in common : Len(e) <= Len(d)

\* C1: a dry run (execute = False) of the optimizer or of the year-sort changes
\* nothing: the set of paths, every file's content, every note's text and the
\* set of directories stay what they were before the run.
C1_DryRunChangesNothing == ~execute => fs = fs0

\* a finished dry run that reported a note or a resource as moved
C1_Witness ==
    /\ ~execute /\ pc = "done"
    /\ \/ tool = "optimizer" /\ stats.moved >= 1
       \/ tool = "sorter" /\ stats.moved >= 1 /\ stats.resources_moved >= 1

\* C2: the execute run of the optimizer, started on the tree of the dry run,
\* queues the same moves (source, destination, referencing notes) and takes the
\* same skip decisions as the dry run; without an I/O error its moved count is
\* the dry run's would-move count, and the skip counts agree.
C2_SameDecisions ==
    (tool = "optimizer" /\ execute /\ pc \in {"phase4", "done"}) =>
        /\ moves = dry.moves
        /\ skips = dry.skips
        /\ pc = "done" =>
              /\ stats.skipped_optimal = dry.stats.skipped_optimal
              /\ stats.skipped_conflict = dry.stats.skipped_conflict
              /\ (stats.errors = 0 /\ upd_errors = <<>>) => stats.moved = dry.stats.moved

\* an execute run without error that moved a resource and skipped another
C2_Witness ==
    /\ tool = "optimizer" /\ execute /\ pc = "done"
    /\ stats.errors = 0 /\ upd_errors = <<>>
    /\ stats.moved >= 1 /\ Len(skips) >= 1

\* C3: without an I/O error the execute run of the year-sort reports, for every
\* note and every resource reference, the outcome and the new file name the
\* dry run reported on the same tree, and ends with the same counters.
C3_SortPreviewIsFaithful ==
    (tool = "sorter" /\ execute /\ pc = "done"
        /\ stats.errors = 0 /\ upd_errors = <<>>) =>
        /\ log = dry.log
        /\ stats = dry.stats

\* C4: a resource name that has two files of different fingerprints is never
\* relocated by the optimizer: no move is queued for a file of that name, its
\* files keep their paths and contents, the notes referencing it keep their
\* text, and its references carry the conflict flag and a candidate path.
C4_ConflictNeverRelocated ==
    tool = "optimizer" =>
        \A n \in ResNames :
            (\E p, q \in FilesNamed(n) :
                /\ Fingerprint(p) # NoneHash /\ Fingerprint(q) # NoneHash
                /\ Fingerprint(p) # Fingerprint(q)) =>
            /\ \A i \in 1..Len(moves) : moves[i].source.name # n
            /\ {p \in DOMAIN fs.resources : p.name = n} = FilesNamed(n)
            /\ \A p \in FilesNamed(n) : fs.resources[p] = fs0.resources[p]
            /\ \A md \in NotesReferencing(n) : fs.notes[md].text = fs0.notes[md].text
            /\ \A i \in 1..Len(references) :
                  references[i].resource_name = n =>
                      /\ references[i].resource_hash = CONFLICT
                      /\ references[i].resource_actual_path # NoPath

\* C5: after an execute year-sort without I/O error, every note that was moved
\* into a year folder finds, for each of its references whose file stood in
\* the resources directory before the run, a file of the name it now
\* references in the _resources folder of its year.
C5_ReferencesStayValid ==
    (tool = "sorter" /\ execute /\ pc = "done"
        /\ stats.errors = 0 /\ upd_errors = <<>>) =>
        \A md \in DOMAIN fs0.notes :
            LET year == YearOf(fs0.notes[md].created)
                now == P(<<year>>, md.name)
            IN (md.dir = base_path /\ md \notin DOMAIN fs.notes /\ now \in DOMAIN fs.notes) =>
                \A k \in 1..Len(fs0.notes[md].text) :
                    LET was == fs0.notes[md].text[k]
                    IN (was.folder = <<RES>>
                            /\ P(resources_dir, was.name) \in DOMAIN fs0.resources) =>
                        P(<<year, RES>>, fs.notes[now].text[k].name) \in DOMAIN fs.resources

\* the file of a name that the locator meets first, and the place the
\* optimizer aims at: <deepest common directory of the notes>/_resources/<name>
FirstCandidate(n) ==
    LET pos(p) == CHOOSE i \in 1..Len(walk) : walk[i] = p.dir
    IN CHOOSE p \in FilesNamed(n) : \A q \in FilesNamed(n) : pos(p) <= pos(q)
Destination(n) == P(DeepestCommonDir(NotesReferencing(n)) \o <<RES>>, n)

\* two or more notes reference the name and all its files have one fingerprint
SharedIdentical(n) ==
    /\ Cardinality(NotesReferencing(n)) >= 2
    /\ FilesNamed(n) # {}
    /\ \A p, q \in FilesNamed(n) :
          Fingerprint(p) # NoneHash /\ Fingerprint(p) = Fingerprint(q)

MovesOf(n) == {i \in 1..Len(moves) : moves[i].source.name = n}

C7_AlreadyOptimalIsLeftAlone ==
    (tool = "optimizer" /\ pc \in {"phase4", "done"}) =>
        LET grouped == group_by_resource(references) IN
        \A k \in 1..Len(grouped) :
            LET g == grouped[k] IN
            g.path = P(DeepestCommonDir(Range(g.md_files)) \o <<RES>>, g.path.name) =>
                /\ \A i \in 1..Len(moves) : moves[i].source # g.path
                /\ g.path \in DOMAIN fs.resources
                /\ fs.resources[g.path] = fs0.resources[g.path]
                /\ \A md \in Range(g.md_files) : fs.notes[md].text = fs0.notes[md].text
                /\ [kind |-> "optimal", path |-> g.path] \in Range(skips)
                /\ stats.skipped_optimal = Cardinality({i \in 1..Len(skips) :
                                                          skips[i].kind = "optimal"})

\* C8: find_lowest_common_ancestor returns the base root for the empty list
\* and otherwise the deepest directory that is an ancestor of, or equal to,
\* the parent of every note of the list; the result is a function of the set
\* of the notes, so neither their order nor a repetition changes it.
C8_LowestCommonAncestor ==
    (tool = "lca" /\ call.returned) =>
        call.result = IF call.args = <<>> THEN base_path
                      ELSE DeepestCommonDir(Range(call.args))

\* notes of sibling folders under A, one of them listed twice
C8_Witness ==
    /\ tool = "lca" /\ call.returned
    /\ call.args = <<P(DirAB, Note1), P(DirAC, Note2), P(DirAB, Note1)>>
    /\ call.result = DirA

\* C9: in Phase 4 of an execute run every queued move is attempted exactly
\* once, in order, whatever happened to the earlier ones; a failed move adds
\* one to the errors and nothing to the moved count; a completed move stays
\* applied whatever happens afterwards.
C9_EveryMoveAttemptedOnce ==
    (tool = "optimizer" /\ execute /\ pc \in {"phase4", "done"}) =>
        /\ \A i \in 1..Len(moves) :
              /\ attempts[i] = IF i < mv THEN 1 ELSE 0
              /\ outcome[i] \in IF i < mv THEN {"moved", "error"} ELSE {"queued"}
              /\ outcome[i] = "moved" =>
                    /\ moves[i].target \in DOMAIN fs.resources
                    /\ moves[i].source \notin DOMAIN fs.resources
        /\ stats.errors = Count(outcome, "error")
        /\ stats.moved = Count(outcome, "moved")
        /\ pc = "done" => \A i \in 1..Len(moves) : attempts[i] = 1

\* the first of two queued moves failed, the second was carried out
C9_Witness ==
    /\ tool = "optimizer" /\ execute /\ pc = "done"
    /\ outcome = <<"error", "moved">>
    /\ stats.errors = 1 /\ stats.moved = 1

\* C10: every failed rewrite of a note after a successful move or rename of
\* its resource is counted in the errors of the run's statistics.
C10_UpdateFailureIsCounted ==
    (execute /\ pc = "done") => stats.errors >= Len(upd_errors)

\* a call of move_resource_file is about to be made for the link in work, and
\* the outcome it reports
ResourceCall == tool = "sorter" /\ pc = "resources" /\ srt.j <= Len(srt.resource_links)
Reported == log'[Len(log')]
SameContent(a, b) ==
    /\ fs.resources[a].readable /\ fs.resources[b].readable
    /\ fs.resources[a].content = fs.resources[b].content

\* C11: an execute call of move_resource_file whose source exists and whose
\* target exists with other content, and in which no I/O error occurs, moves
\* the source to a path of the target's directory that did not exist, leaves
\* the file at the target path as it is, changes every link of the note to the
\* old file name into a link to the new one, and reports 'renamed' with the
\* new file name.
C11_RenameOnConflict ==
    [][(/\ ResourceCall /\ execute
        /\ SourceResource \in DOMAIN fs.resources
        /\ TargetResource \in DOMAIN fs.resources
        /\ ~SameContent(SourceResource, TargetResource)
        /\ log' # log /\ Reported.status # "error" /\ upd_errors' = upd_errors)
       => LET dest == P(TargetResource.dir, Reported.new_filename)
              md == srt.md_file_for_update
          IN /\ Reported.status = "renamed"
             /\ ~Exists(dest)
             /\ dest \in DOMAIN fs'.resources
             /\ fs'.resources[dest] = fs.resources[SourceResource]
             /\ SourceResource \notin DOMAIN fs'.resources
             /\ fs'.resources[TargetResource] = fs.resources[TargetResource]
             /\ \A k \in 1..Len(fs.notes[md].text) :
                   (fs.notes[md].text[k].folder = <<RES>>
                        /\ fs.notes[md].text[k].name = CurLink) =>
                       fs'.notes[md].text[k].name = Reported.new_filename]_vars

\* C12: a call of move_resource_file whose source exists and whose target
\* exists with the same content changes nothing in either mode: no file is
\* moved or changed, no note is rewritten, the status is 'identical' with
\* success and no counter is incremented.
C12_IdenticalIsNoOp ==
    [][(/\ ResourceCall
        /\ SourceResource \in DOMAIN fs.resources
        /\ TargetResource \in DOMAIN fs.resources
        /\ SameContent(SourceResource, TargetResource)
        /\ log' # log)
       => /\ Reported.status = "identical"
          /\ Reported.new_filename = NoName
          /\ fs' = fs
          /\ writes' = writes
          /\ stats' = stats]_vars

\* an execute call has just reported 'identical'
C12_Witness ==
    /\ tool = "sorter" /\ execute /\ pc = "resources"
    /\ log # <<>> /\ log[Len(log)].status = "identical"
    /\ P(resources_dir, log[Len(log)].name) \in DOMAIN fs.resources

\* the resource outcomes logged for a note, and its resource references
OutcomesOf(md) ==
    SelectSeq(log, LAMBDA e : e.md = md /\ e.what = "resource")
MovedNote(md) ==
    \E i \in 1..Len(log) : log[i].md = md /\ log[i].what = "note" /\ log[i].status = "moved"

\* C13: a reference whose source file does not exist is reported as missing
\* with success: the call changes no file and no note, adds one to the missing
\* counter and nothing to the errors, and the run goes on: at its end every
\* note of the glob has its outcome and every reference of every moved note
\* has one, in order.
C13_MissingIsNotFatal ==
    /\ [][(ResourceCall /\ SourceResource \notin DOMAIN fs.resources /\ log' # log)
          => /\ Reported.status = "missing"
             /\ fs' = fs /\ writes' = writes
             /\ stats' = [stats EXCEPT !.resources_missing = @ + 1]
             /\ srt'.j = srt.j + 1 /\ pc' = pc]_vars
    /\ []((tool = "sorter" /\ pc = "done") =>
            /\ \A k \in 1..Len(srt.md_files) :
                  \E i \in 1..Len(log) : log[i].md = srt.md_files[k] /\ log[i].what = "note"
            /\ \A md \in Range(srt.md_files) :
                  (MovedNote(md) /\ srt.resources_path) =>
                      [i \in 1..Len(OutcomesOf(md)) |-> OutcomesOf(md)[i].name]
                          = extract_resource_links(fs0.notes[md].text))

\* an execute run ended in which a missing reference was followed by a moved
\* resource
C13_Witness ==
    /\ tool = "sorter" /\ execute /\ pc = "done"
    /\ stats.resources_missing >= 1 /\ stats.errors = 0
    /\ \E i \in 1..Len(log) :
          /\ log[i].status = "missing"
          /\ \E j \in (i + 1)..Len(log) : log[j].what = "resource" /\ log[j].status = "moved"

\* the target paths a year-sort can ask a unique name for
UniqueTargets == {P(<<y, RES>>, n) : y \in {Year1, Year2}, n \in ResNames}

\* C14: get_unique_filename returns the target itself when it does not exist,
\* and otherwise <parent>/<stem>_<k><ext> for the smallest k >= 1 whose path
\* does not exist; the path returned never exists (the search ends, as the
\* directory holds finitely many files).
C14_UniqueFilename ==
    tool = "sorter" =>
        \A t \in UniqueTargets :
            LET r == get_unique_filename(t)
                numbered(k) == P(t.dir, Numbered(t.name, k))
            IN /\ ~Exists(r)
               /\ ~Exists(t) => r = t
               /\ Exists(t) =>
                     \E k \in 1..(Cardinality(DOMAIN fs.resources) + 1) :
                         /\ r = numbered(k)
                         /\ \A j \in 1..(k - 1) : Exists(numbered(j))

\* a resource was renamed to <stem>_2 because <stem> and <stem>_1 existed
C14_Witness ==
    /\ tool = "sorter" /\ execute
    /\ \E i \in 1..Len(log) :
          /\ log[i].status = "renamed"
          /\ log[i].new_filename = Numbered(ResX, 2)
    /\ P(<<Year1, RES>>, Numbered(ResX, 1)) \in DOMAIN fs.resources
    /\ P(<<Year1, RES>>, Numbered(ResX, 2)) \in DOMAIN fs.resources

\* _process_file is about to be called for the note in work
NoteCall == tool = "sorter" /\ pc = "note" /\ srt.i <= Len(srt.md_files)

\* C15: a note whose target <base>/<year>/<name> exists is skipped: the call
\* changes no file and no note, starts no resource move, and adds one to the
\* skipped (exists) counter; through every run the number of note files stays
\* what it was and the notes that stood in a year folder stay as they were.
C15_NeverOverwritesNote ==
    /\ [][(/\ NoteCall
           /\ extract_year_from_frontmatter(CurNote) # NoYear
           /\ P(<<extract_year_from_frontmatter(CurNote)>>, CurNote.name) \in DOMAIN fs.notes
           /\ log' # log)
          => /\ Reported.status = "skipped_exists"
             /\ fs' = fs /\ writes' = writes
             /\ stats' = [stats EXCEPT !.skipped_exists = @ + 1]
             /\ pc' = "note" /\ srt'.i = srt.i + 1]_vars
    /\ [](tool = "sorter" =>
            /\ Cardinality(DOMAIN fs.notes) = Cardinality(DOMAIN fs0.notes)
            /\ \A p \in DOMAIN fs0.notes :
                  p.dir # base_path => p \in DOMAIN fs.notes /\ fs.notes[p] = fs0.notes[p])

\* an execute run skipped a note whose target exists; both files are in place
C15_Witness ==
    /\ tool = "sorter" /\ execute /\ pc = "done"
    /\ \E i \in 1..Len(log) :
          /\ log[i].status = "skipped_exists"
          /\ log[i].md \in DOMAIN fs.notes
          /\ P(<<YearOf(fs.notes[log[i].md].created)>>, log[i].md.name) \in DOMAIN fs.notes
    /\ stats.skipped_exists = 1 /\ stats.moved = 1

\* C16: a reference whose name has several candidate files, at least one of
\* them with a fingerprint and all fingerprints that exist equal, resolves to
\* the candidate found first and records the shared fingerprint, also when
\* the candidate found first has none.
C16_SharedFingerprintRecorded ==
    (tool = "analyzer" /\ pc = "done") =>
        \A i \in 1..Len(references) :
            LET n == references[i].resource_name
                digests == {Fingerprint(p) : p \in FilesNamed(n)} \ {NoneHash}
            IN (Cardinality(FilesNamed(n)) >= 2 /\ Cardinality(digests) = 1) =>
                  /\ references[i].resource_actual_path = FirstCandidate(n)
                  /\ references[i].resource_hash \in digests

\* C17: update_resource_link(old, new) returns, and the references extracted
\* from the text it wrote are those extracted before with every old name
\* replaced by the new one; the text has the same links as before, each with
\* its embed marker, folder and display text, and with its name unless that
\* was a reference to the old name.
C17_RewriteRoundTrip ==
    (tool = "rewrite" /\ call.fn = "update_resource_link" /\ call.returned) =>
        LET a == call.args
            before == extract_resource_links(a.text)
            after == extract_resource_links(call.result.text)
            is_ref(l) == Len(l.folder) >= 1 /\ l.folder[1] = RES
        IN /\ ~call.result.raised
           /\ after = [k \in 1..Len(before) |->
                          IF before[k] = a.old_name THEN a.new_name ELSE before[k]]
           /\ Len(call.result.text) = Len(a.text)
           /\ \A k \in 1..Len(a.text) :
                 LET was == a.text[k]
                     now == call.result.text[k]
                 IN /\ now.embed = was.embed /\ now.disp = was.disp
                    /\ now.folder = was.folder
                    /\ (~(is_ref(was) /\ was.name = a.old_name)) => now = was

\* C18: _update_markdown_link for a resource R writes a text with the same
\* links as before: a link whose file name is not R is unchanged, a link
\* whose file name is R keeps its embed marker, its name and its display text.
C18_RewriteTouchesOnlyR ==
    (tool = "rewrite" /\ call.fn = "_update_markdown_link" /\ call.returned) =>
        LET a == call.args
        IN /\ Len(call.result.text) = Len(a.text)
           /\ \A k \in 1..Len(a.text) :
                 LET was == a.text[k]
                     now == call.result.text[k]
                 IN IF was.name = a.resource_name
                    THEN now = [was EXCEPT !.folder = now.folder]
                    ELSE now = was

\* a file whose bytes can be read
CanFingerprint(p) == p \in DOMAIN fs.resources /\ fs.resources[p].readable

\* C19: files_are_identical(a, b) is true exactly when both files can be
\* fingerprinted and hold the same bytes; it gives the same answer for (b, a);
\* it is true for (a, a) when a is readable and false when a is not.
C19_IdenticalIffBothDigestsEqual ==
    (tool = "hasher" /\ call.returned) =>
        LET a == call.args[1]
            b == call.args[2]
        IN /\ call.result = (/\ CanFingerprint(a)
                             /\ CanFingerprint(b)
                             /\ fs.resources[a].content = fs.resources[b].content)
           /\ call.result = files_are_identical(b, a)
           /\ (a = b) => (call.result = CanFingerprint(a))

\* two different files, both present and unreadable, were compared
C19_Witness ==
    /\ tool = "hasher" /\ call.returned
    /\ call.args[1] # call.args[2]
    /\ call.args[1] \in DOMAIN fs.resources /\ ~fs.resources[call.args[1]].readable
    /\ call.args[2] \in DOMAIN fs.resources /\ ~fs.resources[call.args[2]].readable
    /\ fs.resources[call.args[1]].content = fs.resources[call.args[2]].content
    /\ ~call.result

\* the 'Created at:' texts that start with four digits, a dash, two digits, a
\* dash and two digits, with their years; the note names that start with
\* eight digits and an underscore naming a year in 1900..2100, a month in
\* 1..12 and a day in 1..31, with their years
WellFormedCreated ==
    (Date1 :> "2023") @@ (Date2 :> "2024") @@ ("2023-13-45" :> "2023")
    @@ ("2023-05-17 10:30" :> "2023")
DatedNames == ("20230517_n" :> "2023") @@ ("20240102_n" :> "2024")

\* C20: the year of a readable note whose front matter block has a
\* well-formed 'Created at:' date is the year of that date, whatever the name
\* of the note; otherwise it is the year of a valid date prefix of the name;
\* otherwise, and for every unreadable note, there is none.
C20_YearPriority ==
    (tool = "year" /\ call.returned) =>
        LET md_file == call.args[1]
            note == fs.notes[md_file]
            stem == md_file.name.stem
        IN call.result =
              IF ~note.readable THEN ""
              ELSE IF note.front /\ note.created \in DOMAIN WellFormedCreated
              THEN WellFormedCreated[note.created]
              ELSE IF stem \in DOMAIN DatedNames THEN DatedNames[stem]
              ELSE ""

\* a readable note named for a day of 2024 whose front matter says 2023
C20_Witness ==
    /\ tool = "year" /\ call.returned
    /\ call.args[1].name.stem = "20240102_n"
    /\ fs.notes[call.args[1]].readable /\ fs.notes[call.args[1]].front
    /\ fs.notes[call.args[1]].created = Date1
    /\ call.result = "2023"

LinksInTree ==
    LET n(md) == Len(extract_resource_links(fs0.notes[md].text))
        RECURSIVE sum(_)
        sum(S) == IF S = {} THEN 0
                  ELSE LET md == CHOOSE m \in S : TRUE IN n(md) + sum(S \ {md})
    IN sum(DOMAIN fs0.notes)
\* the files that references resolved to without a conflict
ResolvedFiles ==
    {references[i].resource_actual_path :
        i \in {j \in 1..Len(references) :
                  /\ references[j].resource_actual_path # NoPath
                  /\ references[j].resource_hash # CONFLICT}}

\* C22: the phases of an optimizer run follow one another in the order 1, 2,
\* 3, 4; until Phase 4 begins no file is moved and no note is rewritten; when
\* it begins every link of every note has its reference and every resolved
\* file is either queued or skipped; and from then on the queue (sources,
\* destinations, note lists) does not change.
C22_PlanBeforeMutation ==
    /\ [][tool = "optimizer" =>
             /\ <<pc, pc'>> \in {<<"phase1", "phase2">>, <<"phase2", "phase3">>,
                                 <<"phase3", "phase4">>, <<"phase4", "phase4">>,
                                 <<"phase4", "done">>, <<"done", "phase1">>}
             /\ (pc = "phase4" /\ pc' # "phase1") => moves' = moves
             /\ pc = "done" => ~execute]_vars
    /\ [](tool = "optimizer" =>
             /\ pc \in {"phase1", "phase2", "phase3"} =>
                   /\ fs = fs0
                   /\ \A md \in DOMAIN writes : writes[md] = <<>>
             /\ pc \in {"phase4", "done"} =>
                   /\ Len(references) = LinksInTree
                   /\ ResolvedFiles = {moves[i].source : i \in 1..Len(moves)}
                                      \cup {skips[i].path : i \in 1..Len(skips)}
                   /\ Len(moves) + Len(skips) = Cardinality(ResolvedFiles))

\* Phase 4 of an execute run: the first of two queued moves has been carried
\* out, the second is still queued
C22_Witness ==
    /\ tool = "optimizer" /\ execute /\ pc = "phase4"
    /\ Len(moves) = 2 /\ mv = 2
    /\ outcome = <<"moved", "queued">>
    /\ fs # fs0

\* C23: the note list of every queued move names each referencing note once:
\* its length, the number reported, is the number of the notes that reference
\* the resource, and an execute run that moves the resource writes each of
\* these notes once for it.
C23_GroupIsASetOfNotes ==
    (tool = "optimizer" /\ pc \in {"phase4", "done"}) =>
        \A i \in 1..Len(moves) :
            LET m == moves[i] IN
            /\ \A a, b \in 1..Len(m.md_files) : m.md_files[a] = m.md_files[b] => a = b
            /\ Len(m.md_files) = Cardinality(NotesReferencing(m.source.name))
            /\ (execute /\ outcome[i] = "moved") =>
                  \A md \in NotesReferencing(m.source.name) \ Range(upd_errors) :
                      Count(writes[md], m.source.name) = 1

\* the entries of the log that report a note, and those that report a resource
NoteEntries == {k \in 1..Len(log) : log[k].what = "note"}
ResourceEntries == {k \in 1..Len(log) : log[k].what = "resource"}

\* C24: in an execute year-sort a resource file changes its path only while
\* the resources of the note in work are handled, and then that note stands
\* in its year folder and no longer in the base directory; a link rewrite is
\* written to the note at its path in the year folder; every resource outcome
\* follows the report that its note was moved; a note whose move failed has
\* no resource outcome, and the run goes on to the next note and reports
\* every note of the base directory.
C24_NoteBeforeResources ==
    /\ [][(tool = "sorter" /\ execute) =>
             /\ fs'.resources # fs.resources =>
                   /\ pc = "resources"
                   /\ srt.md_file_for_update = P(srt.year_dir, CurNote.name)
                   /\ Len(srt.year_dir) = 1
                   /\ srt.md_file_for_update \in DOMAIN fs.notes
                   /\ CurNote \notin DOMAIN fs.notes
             /\ (pc = "resources" /\ writes' # writes) =>
                   /\ writes' = [writes EXCEPT ![P(srt.year_dir, CurNote.name)] =
                                                   Append(@, CurLink)]
                   /\ P(srt.year_dir, CurNote.name) \in DOMAIN fs'.notes
             /\ (pc = "note" /\ Len(log') > Len(log) /\ Reported.status = "error") =>
                   /\ fs'.resources = fs.resources
                   /\ fs'.notes = fs.notes
                   /\ pc' = "note"
                   /\ srt'.i = srt.i + 1]_vars
    /\ [](tool = "sorter" /\ execute =>
             /\ \A k \in ResourceEntries :
                   \E j \in NoteEntries :
                       j < k /\ log[j].md = log[k].md /\ log[j].status = "moved"
             /\ \A j \in NoteEntries :
                   log[j].status = "error" =>
                       \A k \in ResourceEntries : log[k].md # log[j].md
             /\ pc = "done" =>
                   {log[j].md : j \in NoteEntries}
                       = {p \in DOMAIN fs0.notes : p.dir = base_path})

\* an execute run is over: the move of the first note failed and left its
\* resource where it was, the second note was moved and its resource after it
C24_Witness ==
    /\ tool = "sorter" /\ execute /\ pc = "done"
    /\ Len(log) = 3
    /\ log[1].what = "note" /\ log[1].status = "error"
    /\ log[1].md \in DOMAIN fs.notes
    /\ Len(fs0.notes[log[1].md].text) = 1
    /\ P(resources_dir, fs0.notes[log[1].md].text[1].name) \in DOMAIN fs.resources
    /\ log[2].what = "note" /\ log[2].status = "moved"
    /\ log[3].what = "resource" /\ log[3].status = "moved" /\ log[3].md = log[2].md

\* a reference that resolved to a file and is not flagged as a conflict
Resolved(r) == r.resource_actual_path # NoPath /\ r.resource_hash # CONFLICT

\* C25: in every optimizer run the resolved references without conflict flag
\* that bear one resource name carry one path and one fingerprint; Phase 2
\* finds no conflict, no path is filtered in Phase 3, no group is skipped as
\* a conflict and the skipped-conflict counter is 0.
C25_NoConflictIsEverDetected ==
    tool = "optimizer" =>
        /\ \A i, j \in 1..Len(references) :
              (/\ Resolved(references[i]) /\ Resolved(references[j])
               /\ references[i].resource_name = references[j].resource_name) =>
                  /\ references[i].resource_actual_path = references[j].resource_actual_path
                  /\ references[i].resource_hash = references[j].resource_hash
        /\ DOMAIN detect_conflicts(references) = {}
        /\ DOMAIN conflicts = {}
        /\ conflict_paths_of(conflicts) = {}
        /\ \A k \in 1..Len(skips) : skips[k].kind # "conflict"
        /\ stats.skipped_conflict = 0

\* a run is over in which two notes referenced a name that has two files, and
\* both references resolved without a conflict flag
C25_Witness ==
    /\ tool = "optimizer" /\ pc = "done"
    /\ \E n \in ResNames :
          /\ Cardinality(NotesReferencing(n)) = 2
          /\ Cardinality(FilesNamed(n)) = 2
          /\ \E i, j \in 1..Len(references) :
                /\ i # j
                /\ references[i].resource_name = n /\ references[j].resource_name = n
                /\ Resolved(references[i]) /\ Resolved(references[j])

\* C26: when every queued move of an execute run was carried out and every
\* note update went through, the next run on the tree it left queues no move.
C26_FixedPointAfterOneRun ==
    (/\ tool = "optimizer" /\ dry.run = 2 /\ pc \in {"phase4", "done"}
     /\ \A i \in 1..Len(dry.outcome) : dry.outcome[i] = "moved"
     /\ dry.upd_errors = <<>>) =>
        moves = <<>>

\* the contents held by the resource files of a tree
ContentsOf(f) == {f.resources[p].content : p \in DOMAIN f.resources}

\* C27: in an execute optimizer run no two queued moves have one destination,
\* a move never takes the place of a file of another content, and every
\* content that a resource file held when the run started is held by some
\* resource file at every later moment.
C27_NoContentIsLost ==
    /\ [][(tool = "optimizer" /\ execute /\ fs'.resources # fs.resources) =>
             (moves[mv].target \in DOMAIN fs.resources =>
                 fs.resources[moves[mv].target].content
                     = fs.resources[moves[mv].source].content)]_vars
    /\ [](tool = "optimizer" /\ execute =>
             /\ \A i, j \in 1..Len(moves) :
                   moves[i].target = moves[j].target => i = j
             /\ ContentsOf(fs0) \subseteq ContentsOf(fs))

====
